---- MODULE Spec2Model ----
(***************************************************************************)
(* Model of spherical_objects.py: the fisheye lens projection              *)
(* (cartesian2sphere, sphere2cartesian, convert_point) and the bounding    *)
(* box classes (CartesianBbox, SphericalBbox, bbox_to_spherical).          *)
(*                                                                         *)
(* Python floats are represented in fixed point: a real v is the integer   *)
(* v * Scale, every operation truncating towards zero.  Pixel coordinates  *)
(* given to the box classes stay plain integers (the code uses // on them).*)
(* Python lists are objects with identity: heap[ref] is the content of the *)
(* list object ref, so that two names of one list can be told from two     *)
(* equal lists.                                                            *)
(***************************************************************************)
EXTENDS Integers, Sequences, FiniteSets, TLC

VARIABLES heap, cbox, sbox, ret, call

vars == <<heap, cbox, sbox, ret, call>>

----------------------------------------------------------------------------
(* Bounds of the model. *)

\* Longest list of points a caller hands to a constructor.
MaxLen == 4

----------------------------------------------------------------------------
(* Fixed-point arithmetic standing for Python's float arithmetic. *)

\* Resolution of the fixed-point representation: 1.0 is Scale.
Scale == 1000

\* Lens constants (lines 5, 6, 8), f and D in units of 1/Scale.
f == 714286
center == <<960, 540>>
D == 1083

NoError == "none"
ZeroDivisionError == "ZeroDivisionError: float division by zero"
MathDomainError == "ValueError: math domain error"
DimensionError == "ValueError: Expected point to be 2 or 3D"
FormatError == "AssertionError: Invalid bbox format"
CountError == "AssertionError: Invalid number of points"
ParityError == "AssertionError: the number of points must be pair"
IndexError == "IndexError: list index out of range"
RangeStepError == "ValueError: range() arg 3 must not be zero"

Abs(a) == IF a < 0 THEN -a ELSE a

\* Quotient truncated towards zero, b # 0.
TDiv(a, b) ==
    IF (a >= 0) = (b > 0) THEN Abs(a) \div Abs(b) ELSE -(Abs(a) \div Abs(b))

\* Product and quotient of two fixed-point numbers (b # 0 in FDiv).
FMul(a, b) == TDiv(a * b, Scale)
FDiv(a, b) == TDiv(a * Scale, b)

\* Largest k in lo..hi with k*k <= n (lo*lo <= n).
RECURSIVE SqrtSearch(_, _, _)
SqrtSearch(n, lo, hi) ==
    IF lo >= hi THEN lo
    ELSE LET mid == (lo + hi + 1) \div 2
         IN IF mid * mid <= n THEN SqrtSearch(n, mid, hi)
                              ELSE SqrtSearch(n, lo, mid - 1)

\* math.sqrt of the fixed-point square sum n (in units of 1/Scale^2), n >= 0.
Sqrt(n) == SqrtSearch(n, 0, 46340)

\* Sum of the Taylor series whose current term is term, of order n, at
\* argument square xsq: term - term*xsq/((n+1)(n+2)) + ...  (The next term
\* is bound through a one-element set so that it is evaluated once.)
RECURSIVE Series(_, _, _)
Series(term, xsq, n) ==
    IF term = 0 THEN 0
    ELSE CHOOSE v \in { term + Series(t, xsq, n + 2) :
                          t \in { -TDiv(FMul(term, xsq), (n + 1) * (n + 2)) } } : TRUE

\* math.sin and math.cos of a fixed-point angle.
Sin(r) == Series(r, FMul(r, r), 1)
Cos(r) == Series(Scale, FMul(r, r), 0)

\* Smallest angle t in lo..hi with Cos(t) <= z (hi when there is none below).
RECURSIVE AcosSearch(_, _, _)
AcosSearch(z, lo, hi) ==
    IF lo >= hi THEN hi
    ELSE LET mid == (lo + hi) \div 2
         IN IF Cos(mid) <= z THEN AcosSearch(z, lo, mid)
                             ELSE AcosSearch(z, mid + 1, hi)

\* math.acos on its domain -1 <= z <= 1: the angle in [0, pi].
Acos(z) == AcosSearch(z, 0, 3142)

----------------------------------------------------------------------------
(* Lens projection (lines 11-45).  A call's outcome is a record: err is    *)
(* NoError and val the returned point, or err names the exception raised   *)
(* and val is empty.                                                       *)

Ok(v) == [err |-> NoError, val |-> v]
Raise(e) == [err |-> e, val |-> <<>>]

\* The normalised offset and radius of lines 12-15.
Offset(pt) == << FDiv((pt[1] - center[1]) * Scale, f),
                 FDiv((pt[2] - center[2]) * Scale, f) >>
Radius(pt) == Sqrt(Offset(pt)[1] * Offset(pt)[1] + Offset(pt)[2] * Offset(pt)[2])

\* cartesian2sphere with the guard of line 16 left out: x /= r is executed
\* for every r, and a float division by zero raises.
cartesian2sphere_unguarded(pt) ==
    LET r == Radius(pt)
    IN IF r = 0 THEN Raise(ZeroDivisionError)
       ELSE LET theta == FMul(r, D)
            IN Ok(<< FMul(FDiv(Offset(pt)[1], r), Sin(theta)),
                     FMul(FDiv(Offset(pt)[2], r), Sin(theta)),
                     Cos(theta) >>)

\* cartesian2sphere (lines 11-25): pixel -> unit sphere.
cartesian2sphere(pt) ==
    LET x0 == Offset(pt)[1]
        y0 == Offset(pt)[2]
        r0 == Radius(pt)
        x1 == IF r0 # 0 THEN FDiv(x0, r0) ELSE x0
        y1 == IF r0 # 0 THEN FDiv(y0, r0) ELSE y0
        r1 == FMul(r0, D)
        sin_theta == Sin(r1)
    IN Ok(<< FMul(x1, sin_theta), FMul(y1, sin_theta), Cos(r1) >>)

\* sphere2cartesian with math.acos replaced by an arc cosine that clamps its
\* argument to [-1, 1] instead of raising.
sphere2cartesian_clamped(pt) ==
    LET z == IF pt[3] > Scale THEN Scale ELSE IF pt[3] < -Scale THEN -Scale ELSE pt[3]
        r1 == FDiv(Acos(z), D)
        d == Sqrt(Scale * Scale - z * z)
    IN IF z # Scale /\ d = 0 THEN Raise(ZeroDivisionError)
       ELSE LET r2 == IF z # Scale THEN FDiv(r1, d) ELSE r1
            IN Ok(<< FMul(FMul(r2, pt[1]), f) + center[1] * Scale,
                     FMul(FMul(r2, pt[2]), f) + center[2] * Scale >>)

\* sphere2cartesian (lines 28-35): unit sphere -> pixel, in units of 1/Scale.
\* math.acos raises ValueError outside [-1, 1] (line 29); the division of
\* line 32 raises ZeroDivisionError when sqrt(1 - z*z) is 0.
sphere2cartesian(pt) ==
    IF pt[3] > Scale \/ pt[3] < -Scale THEN Raise(MathDomainError)
    ELSE LET r0 == Acos(pt[3])
             r1 == FDiv(r0, D)
             d == Sqrt(Scale * Scale - pt[3] * pt[3])
         IN IF pt[3] # Scale /\ d = 0 THEN Raise(ZeroDivisionError)
            ELSE LET r2 == IF pt[3] # Scale THEN FDiv(r1, d) ELSE r1
                 IN Ok(<< FMul(FMul(r2, pt[1]), f) + center[1] * Scale,
                          FMul(FMul(r2, pt[2]), f) + center[2] * Scale >>)

\* convert_point testing for two coordinates only: every longer point is
\* taken to be a 3D point.
convert_point_two_or_else(point) ==
    IF Len(point) = 2 THEN cartesian2sphere(point)
    ELSE IF Len(point) >= 3 THEN sphere2cartesian(point)
    ELSE Raise(DimensionError)

\* convert_point (lines 38-45).
convert_point(point) ==
    IF Len(point) = 2 THEN cartesian2sphere(point)
    ELSE IF Len(point) = 3 THEN sphere2cartesian(point)
    ELSE Raise(DimensionError)

----------------------------------------------------------------------------
(* Bounding boxes (lines 72-147). *)

Formats == {"xyxy", "xywh", "cxcywh"}

\* CartesianBbox.__init__ without the parity assert of line 90.
CartesianBboxCheck_no_parity(points, fmt) ==
    IF fmt \notin Formats THEN FormatError
    ELSE IF ~(Len(points) >= 2) THEN CountError
    ELSE NoError

\* The asserts of CartesianBbox.__init__ (lines 88-90), in order.
CartesianBboxCheck(points, fmt) ==
    IF fmt \notin Formats THEN FormatError
    ELSE IF ~(Len(points) >= 2) THEN CountError
    ELSE IF ~(Len(points) % 2 = 0) THEN ParityError
    ELSE NoError

\* The asserts of SphericalBbox.__init__ (lines 134-135), in order.
SphericalBboxCheck(points) ==
    IF ~(Len(points) >= 2) THEN CountError
    ELSE IF ~(Len(points) % 2 = 0) THEN ParityError
    ELSE NoError

\* Python's range(start, stop, step) for step > 0, as a sequence.
RECURSIVE PyRange(_, _, _)
PyRange(start, stop, step) ==
    IF start >= stop THEN <<>>
    ELSE <<start>> \o PyRange(start + step, stop, step)

\* _from_xywh_to_xyxy (lines 110-115).
from_xywh_to_xyxy(points) ==
    LET x1 == points[1][1]
        y1 == points[1][2]
        w == points[2][1]
        h == points[2][2]
    IN << <<x1, y1>>, <<x1 + w, y1 + h>> >>

\* _from_cxcywh_to_xyxy with the half extent rounded towards zero instead of
\* floored.
from_cxcywh_to_xyxy_truncating(points) ==
    LET x1 == points[1][1] - TDiv(points[2][1], 2)
        y1 == points[1][2] - TDiv(points[2][2], 2)
    IN << <<x1, y1>>, <<x1 + points[2][1], y1 + points[2][2]>> >>

\* _from_cxcywh_to_xyxy (lines 117-124); // is floor division, as \div is.
from_cxcywh_to_xyxy(points) ==
    LET cx == points[1][1]
        cy == points[1][2]
        w == points[2][1]
        h == points[2][2]
        x1 == cx - (w \div 2)
        y1 == cy - (h \div 2)
    IN << <<x1, y1>>, <<x1 + w, y1 + h>> >>

\* The loops of lines 98-101 and 104-107 over the indices idxs (0-based):
\* points = [*points, *convert([pt1, pt2])].
RECURSIVE PairLoop(_, _, _, _)
PairLoop(self_points, fmt, idxs, points) ==
    IF idxs = <<>> THEN Ok(points)
    ELSE LET idx == Head(idxs)
         IN IF idx + 2 > Len(self_points) THEN Raise(IndexError)
            ELSE LET pair == << self_points[idx + 1], self_points[idx + 2] >>
                     conv == IF fmt = "xywh" THEN from_xywh_to_xyxy(pair)
                                             ELSE from_cxcywh_to_xyxy(pair)
                 IN PairLoop(self_points, fmt, Tail(idxs), points \o conv)

\* get_points_as_xyxy (lines 94-108) on a box with the given stored points
\* and format: the outcome, and whether the returned list is the stored list
\* object itself (fresh = FALSE) or a list built by the call.
get_points_as_xyxy(self_points, fmt) ==
    IF fmt \in {"xywh", "cxcywh"}
    THEN IF Len(self_points) = 0
         THEN [out |-> Raise(RangeStepError), fresh |-> TRUE]
         ELSE [out |-> PairLoop(self_points, fmt,
                                PyRange(0, 2, Len(self_points)), <<>>),
               fresh |-> TRUE]
    ELSE [out |-> Ok(self_points), fresh |-> FALSE]

\* The loop of lines 144-146: convert_point on each point, appended in order;
\* an exception leaves the loop.
RECURSIVE ConvertLoop(_, _)
ConvertLoop(cartesian_points, spherical_points) ==
    IF cartesian_points = <<>> THEN Ok(spherical_points)
    ELSE LET c == convert_point(Head(cartesian_points))
         IN IF c.err # NoError THEN Raise(c.err)
            ELSE ConvertLoop(Tail(cartesian_points),
                             Append(spherical_points, c.val))

\* bbox_to_spherical that converts the corners of the first box only.
bbox_to_spherical_first_box(self_points, fmt) ==
    LET g == get_points_as_xyxy(self_points, fmt).out
    IN IF g.err # NoError THEN Raise(g.err)
       ELSE ConvertLoop(SubSeq(g.val, 1, 2), <<>>)

\* bbox_to_spherical (lines 140-147): the points of the SphericalBbox it
\* returns, or the exception it raises.
bbox_to_spherical(self_points, fmt) ==
    LET g == get_points_as_xyxy(self_points, fmt).out
    IN IF g.err # NoError THEN Raise(g.err)
       ELSE LET s == ConvertLoop(g.val, <<>>)
            IN IF s.err # NoError THEN Raise(s.err)
               ELSE IF SphericalBboxCheck(s.val) # NoError
                    THEN Raise(SphericalBboxCheck(s.val))
                    ELSE Ok(s.val)

----------------------------------------------------------------------------
(* Inputs. *)

\* Pixel points callers build boxes from: even, odd and negative
\* coordinates, the principal point and a point off it.
PixelPoints == { <<10, 10>>, <<12, 12>>, <<5, 5>>, <<-3, -7>>,
                 <<960, 540>>, <<1100, 600>> }

\* Points given to the transforms directly: on the sphere (the pole, the
\* opposite pole, a generic point) and with z outside [-1, 1].
SpherePoints == { <<0, 0, Scale>>, <<0, 0, -Scale>>, <<600, 0, 800>>,
                  <<0, -800, -600>>, <<0, 0, Scale + 1>>, <<0, 0, 2 * Scale>>,
                  <<300, 400, -Scale - 1>>, <<0, 0, -3 * Scale>> }

\* Points of no valid dimension.
OtherPoints == { <<>>, <<7>>, <<1, 2, 3, 4>>, <<0, 0, 0, 0, 0>> }

\* Points callers build a SphericalBbox from.
BoxSpherePoints == { <<0, 0, Scale>>, <<600, 0, 800>> }

FormatTags == Formats \cup {"bogus"}

\* Points a caller writes into a list it was handed.
CallerPoints == { <<0, 0>> }

\* The lists of at most n points of S.
Lists(S, n) == UNION { [1..k -> S] : k \in 0..n }

----------------------------------------------------------------------------
(* State.                                                                  *)
(*   heap  the list objects: heap[1] the list given to CartesianBbox (its  *)
(*         self.points), heap[2] the list built by get_points_as_xyxy,     *)
(*         heap[3] the list held by the SphericalBbox                      *)
(*   cbox  the CartesianBbox: the reference of its points (0: no box) and  *)
(*         its fmt                                                         *)
(*   sbox  the reference of the SphericalBbox's points (0: no box)         *)
(*   ret   the reference get_points_as_xyxy returned last (0: none)        *)
(*   call  the last call: its name, the points and format it was given,    *)
(*         the exception it raised and the point it returned               *)
(* A run follows one scenario: direct calls of the point transforms, or    *)
(* the construction of one box and the calls made on it.  The transforms   *)
(* and the boxes share no state, so the two kinds are not interleaved.     *)

NoBox == [points |-> 0, fmt |-> "none"]

Called(op, points, fmt, err, val) ==
    [op |-> op, points |-> points, fmt |-> fmt, err |-> err, val |-> val]

Init ==
    /\ heap = << <<>>, <<>>, <<>> >>
    /\ cbox = NoBox
    /\ sbox = 0
    /\ ret = 0
    /\ call = Called("init", <<>>, "none", NoError, <<>>)

PointScenario == cbox = NoBox /\ sbox = 0 /\ call.op \in
    {"init", "cartesian2sphere", "sphere2cartesian", "convert_point"}

\* cartesian2sphere(pt), called directly.
Cartesian2Sphere ==
    /\ PointScenario
    /\ \E pt \in PixelPoints :
          call' = Called("cartesian2sphere", <<pt>>, "none",
                         cartesian2sphere(pt).err, cartesian2sphere(pt).val)
    /\ UNCHANGED <<heap, cbox, sbox, ret>>

\* sphere2cartesian(pt), called directly.
Sphere2Cartesian ==
    /\ PointScenario
    /\ \E pt \in SpherePoints :
          call' = Called("sphere2cartesian", <<pt>>, "none",
                         sphere2cartesian(pt).err, sphere2cartesian(pt).val)
    /\ UNCHANGED <<heap, cbox, sbox, ret>>

\* convert_point(point).
ConvertPoint ==
    /\ PointScenario
    /\ \E point \in PixelPoints \cup SpherePoints \cup OtherPoints :
          call' = Called("convert_point", <<point>>, "none",
                         convert_point(point).err, convert_point(point).val)
    /\ UNCHANGED <<heap, cbox, sbox, ret>>

\* CartesianBbox(points, fmt): lines 88-92.  The box keeps the caller's list
\* object itself (self.points = points).
NewCartesianBbox ==
    /\ call.op = "init"
    /\ \E points \in Lists(PixelPoints, MaxLen), fmt \in FormatTags :
          /\ heap' = [heap EXCEPT ![1] = points]
          /\ cbox' = IF CartesianBboxCheck(points, fmt) = NoError
                     THEN [points |-> 1, fmt |-> fmt] ELSE NoBox
          /\ call' = Called("CartesianBbox", points, fmt,
                            CartesianBboxCheck(points, fmt), <<>>)
    /\ UNCHANGED <<sbox, ret>>

\* SphericalBbox(points): lines 134-136.
NewSphericalBbox ==
    /\ call.op = "init"
    /\ \E points \in Lists(BoxSpherePoints, MaxLen) :
          /\ heap' = [heap EXCEPT ![3] = points]
          /\ sbox' = IF SphericalBboxCheck(points) = NoError THEN 3 ELSE 0
          /\ call' = Called("SphericalBbox", points, "none",
                            SphericalBboxCheck(points), <<>>)
    /\ UNCHANGED <<cbox, ret>>

\* cbox.get_points_as_xyxy(): lines 94-108.  For xyxy the list returned is
\* self.points itself; otherwise it is a list the call built.
GetPointsAsXyxy ==
    /\ cbox # NoBox
    /\ \E g \in { get_points_as_xyxy(heap[cbox.points], cbox.fmt) } :
          /\ heap' = IF g.fresh THEN [heap EXCEPT ![2] = g.out.val] ELSE heap
          /\ ret' = IF g.out.err # NoError THEN 0
                    ELSE IF g.fresh THEN 2 ELSE cbox.points
          /\ call' = Called("get_points_as_xyxy", heap[cbox.points], cbox.fmt,
                            g.out.err, <<>>)
    /\ UNCHANGED <<cbox, sbox>>

\* bbox_to_spherical(cbox): lines 140-147.
BboxToSpherical ==
    /\ cbox # NoBox
    /\ \E b \in { bbox_to_spherical(heap[cbox.points], cbox.fmt) } :
          /\ heap' = [heap EXCEPT ![3] = b.val]
          /\ sbox' = IF b.err = NoError THEN 3 ELSE 0
          /\ call' = Called("bbox_to_spherical", heap[cbox.points], cbox.fmt,
                            b.err, <<>>)
    /\ UNCHANGED <<cbox, ret>>

\* The caller changes the list get_points_as_xyxy has just returned to it:
\* it appends a point, or overwrites the first one.
ModifyReturned ==
    /\ ret # 0
    /\ call.op = "get_points_as_xyxy"
    /\ \E p \in CallerPoints :
          \/ /\ Len(heap[ret]) < MaxLen + 1
             /\ heap' = [heap EXCEPT ![ret] = Append(@, p)]
          \/ /\ Len(heap[ret]) > 0
             /\ heap' = [heap EXCEPT ![ret] = [@ EXCEPT ![1] = p]]
    /\ call' = Called("modify_returned", heap[cbox.points], cbox.fmt, NoError, <<>>)
    /\ UNCHANGED <<cbox, sbox, ret>>

Next ==
    \/ Cartesian2Sphere
    \/ Sphere2Cartesian
    \/ ConvertPoint
    \/ NewCartesianBbox
    \/ NewSphericalBbox
    \/ GetPointsAsXyxy
    \/ BboxToSpherical

\* The module's operations alone: boxes are read-only after construction.
Spec == Init /\ [][Next]_vars

NextCaller ==
    \/ Next
    \/ ModifyReturned

\* The operations, and a caller that writes into the lists it was returned.
SpecCaller == Init /\ [][NextCaller]_vars

----------------------------------------------------------------------------
(* Properties. *)

IsPointCall(op) == call.op \in {op, "convert_point"}

\* C1: for a box of 2k points in format xywh or cxcywh, get_points_as_xyxy
\* returns 2k points, and the output points 2i and 2i+1 are the xyxy corners
\* computed from the input points 2i and 2i+1 for every i in 0..k-1.
C1_EveryPairConverted ==
    (call.op = "get_points_as_xyxy" /\ call.fmt \in {"xywh", "cxcywh"}) =>
        /\ call.err = NoError
        /\ ret # 0
        /\ Len(heap[ret]) = Len(call.points)
        /\ \A i \in 0..(Len(call.points) \div 2 - 1) :
              << heap[ret][2 * i + 1], heap[ret][2 * i + 2] >> =
                 IF call.fmt = "xywh"
                 THEN from_xywh_to_xyxy(<< call.points[2 * i + 1], call.points[2 * i + 2] >>)
                 ELSE from_cxcywh_to_xyxy(<< call.points[2 * i + 1], call.points[2 * i + 2] >>)

\* C2: a single box (x, y),(w, h) in xywh and the box
\* (x + floor(w/2), y + floor(h/2)),(w, h) in cxcywh both normalise to the
\* corners (x, y),(x+w, y+h); xywh (10,10,5,5) and cxcywh (12,12,5,5) give
\* (10,10)-(15,15); an xyxy box is returned with its points unchanged.
C2_FormatEquivalence ==
    (call.op = "get_points_as_xyxy") =>
        /\ (call.fmt = "xyxy") => (call.err = NoError /\ heap[ret] = call.points)
        /\ (Len(call.points) = 2 /\ call.fmt = "xywh") =>
              LET x == call.points[1][1]
                  y == call.points[1][2]
                  w == call.points[2][1]
                  h == call.points[2][2]
              IN /\ call.err = NoError
                 /\ heap[ret] = << <<x, y>>, <<x + w, y + h>> >>
                 /\ get_points_as_xyxy(
                        << <<x + (w \div 2), y + (h \div 2)>>, <<w, h>> >>,
                        "cxcywh").out = Ok(heap[ret])
        /\ (Len(call.points) = 2 /\ call.fmt = "cxcywh") =>
              LET w == call.points[2][1]
                  h == call.points[2][2]
                  x == call.points[1][1] - (w \div 2)
                  y == call.points[1][2] - (h \div 2)
              IN /\ call.err = NoError
                 /\ heap[ret] = << <<x, y>>, <<x + w, y + h>> >>
                 /\ get_points_as_xyxy(<< <<x, y>>, <<w, h>> >>, "xywh").out
                       = Ok(heap[ret])
        /\ (call.fmt = "xywh" /\ call.points = << <<10, 10>>, <<5, 5>> >>) =>
              heap[ret] = << <<10, 10>>, <<15, 15>> >>
        /\ (call.fmt = "cxcywh" /\ call.points = << <<12, 12>>, <<5, 5>> >>) =>
              heap[ret] = << <<10, 10>>, <<15, 15>> >>

C2_Witness ==
    /\ call.op = "get_points_as_xyxy"
    /\ call.fmt = "cxcywh"
    /\ call.points = << <<12, 12>>, <<5, 5>> >>
    /\ ret = 2
    /\ heap[ret] = << <<10, 10>>, <<15, 15>> >>

\* C3: construction succeeds exactly when its preconditions hold.
\* CartesianBbox(points, fmt) fails with the format error when fmt is not
\* xyxy, xywh or cxcywh (the first assert, so also when the count is wrong
\* too), and with a point-count error when the count is below 2 or odd;
\* SphericalBbox(points) fails under the same count conditions; every box
\* that exists has an even point count >= 2 and, if cartesian, a recognised
\* format.
C3_ConstructionValidated ==
    /\ (call.op = "CartesianBbox") =>
          LET okfmt == call.fmt = "xyxy" \/ call.fmt = "xywh" \/ call.fmt = "cxcywh"
              okcount == Len(call.points) >= 2 /\ Len(call.points) % 2 = 0
          IN /\ (call.err = NoError) <=> (okfmt /\ okcount)
             /\ ~okfmt => call.err = FormatError
             /\ (okfmt /\ ~okcount) => call.err \in {CountError, ParityError}
             /\ (call.err = NoError) =>
                   (cbox = [points |-> 1, fmt |-> call.fmt] /\ heap[1] = call.points)
             /\ (call.err # NoError) => cbox = NoBox
    /\ (call.op = "SphericalBbox") =>
          LET okcount == Len(call.points) >= 2 /\ Len(call.points) % 2 = 0
          IN /\ (call.err = NoError) <=> okcount
             /\ ~okcount => call.err \in {CountError, ParityError}
             /\ (call.err = NoError) => (sbox = 3 /\ heap[3] = call.points)
             /\ (call.err # NoError) => sbox = 0
    /\ (cbox # NoBox) =>
          /\ Len(heap[cbox.points]) >= 2
          /\ Len(heap[cbox.points]) % 2 = 0
          /\ cbox.fmt = "xyxy" \/ cbox.fmt = "xywh" \/ cbox.fmt = "cxcywh"
    /\ (sbox # 0) => (Len(heap[sbox]) >= 2 /\ Len(heap[sbox]) % 2 = 0)

C3_Witness ==
    /\ call.op = "CartesianBbox"
    /\ call.fmt = "cxcywh"
    /\ Len(call.points) = 3
    /\ call.err = ParityError
    /\ cbox = NoBox

\* C4: convert_point dispatches on the length of its argument only: length 2
\* gives the result of cartesian2sphere, length 3 the result of
\* sphere2cartesian, any other length the dimension error and no result.
C4_DispatchOnLength ==
    (call.op = "convert_point") =>
        LET point == call.points[1]
            result == [err |-> call.err, val |-> call.val]
        IN /\ (Len(point) = 2) =>
                 (result = cartesian2sphere(point) /\ call.err = NoError
                    /\ Len(call.val) = 3)
           /\ (Len(point) = 3) =>
                 (result = sphere2cartesian(point)
                    /\ (call.err = NoError => Len(call.val) = 2))
           /\ (Len(point) # 2 /\ Len(point) # 3) =>
                 (call.err = DimensionError /\ call.val = <<>>)

C4_Witness ==
    /\ call.op = "convert_point"
    /\ call.points = << <<1, 2, 3, 4>> >>
    /\ call.err = DimensionError

\* C6: cartesian2sphere of the principal point takes the r = 0 branch and
\* returns exactly (0, 0, 1); sphere2cartesian of (0, 0, 1) returns exactly
\* the principal point; bbox_to_spherical of the xyxy box
\* [(960,540),(1100,600)] has first point exactly (0, 0, 1).
C6_PoleFixedPoint ==
    /\ Radius(center) = 0
    /\ (IsPointCall("cartesian2sphere") /\ call.points = << center >>) =>
          (call.err = NoError /\ call.val = <<0, 0, Scale>>)
    /\ (IsPointCall("sphere2cartesian") /\ call.points = << <<0, 0, Scale>> >>) =>
          (call.err = NoError
             /\ call.val = << center[1] * Scale, center[2] * Scale >>)
    /\ (call.op = "bbox_to_spherical" /\ call.fmt = "xyxy"
          /\ call.points = << <<960, 540>>, <<1100, 600>> >>) =>
          (call.err = NoError /\ sbox # 0 /\ heap[sbox][1] = <<0, 0, Scale>>)

C6_Witness ==
    /\ call.op = "bbox_to_spherical"
    /\ call.fmt = "xyxy"
    /\ call.points = << <<960, 540>>, <<1100, 600>> >>
    /\ sbox # 0
    /\ heap[sbox][1] = <<0, 0, Scale>>
    /\ heap[sbox][2][3] < Scale

\* C7: sphere2cartesian of a point whose z lies outside [-1, 1] raises an
\* error and returns no pixel point.
C7_DomainError ==
    (IsPointCall("sphere2cartesian") /\ Len(call.points[1]) = 3
       /\ (call.points[1][3] > Scale \/ call.points[1][3] < -Scale)) =>
        (call.err = MathDomainError /\ call.val = <<>>)

C7_Witness ==
    /\ call.op = "sphere2cartesian"
    /\ call.points = << <<300, 400, -Scale - 1>> >>
    /\ call.err = MathDomainError

\* C10: bbox_to_spherical(b) succeeds for every constructed box b; the
\* SphericalBbox has as many points as b.get_points_as_xyxy(), its i-th
\* point is cartesian2sphere of the i-th normalised corner, and b's points
\* and fmt are as before the call.
C10_PositionalConversion ==
    (call.op = "bbox_to_spherical") =>
        LET xyxy == get_points_as_xyxy(call.points, call.fmt).out.val
        IN /\ call.err = NoError
           /\ sbox # 0
           /\ Len(heap[sbox]) = Len(xyxy)
           /\ \A i \in 1..Len(xyxy) :
                 heap[sbox][i] = cartesian2sphere(xyxy[i]).val
           /\ cbox.fmt = call.fmt
           /\ heap[cbox.points] = call.points

C10_Witness ==
    /\ call.op = "bbox_to_spherical"
    /\ call.fmt = "xyxy"
    /\ Len(call.points) = 4
    /\ sbox # 0
    /\ Len(heap[sbox]) = 4
    /\ heap[sbox][4] = cartesian2sphere(call.points[4]).val

\* C5: for every format get_points_as_xyxy leaves the box's points and fmt
\* as they were and returns a sequence that is not the box's own stored
\* sequence, so that a later modification of the returned sequence does not
\* change the box's points.
C5_ReturnsNewSequence ==
    /\ (call.op = "get_points_as_xyxy" /\ call.err = NoError) =>
          /\ heap[cbox.points] = call.points
          /\ cbox.fmt = call.fmt
          /\ ret # cbox.points
    /\ (call.op = "modify_returned") => heap[cbox.points] = call.points

====
